---- MODULE Spec2Model ----
(***************************************************************************)
(* Planetary exploration simulation: Planet (toroidal grid), Rover (state  *)
(* machine with move / gather) and Fleet (simpy processes, one per rover). *)
(* The specifications share the variables:                               *)
(*   SpecPlanet  calls of Planet.get_cell / Planet.empty_cell              *)
(*   SpecRover   calls of Rover.move / Rover.gather on one rover           *)
(*   Spec        one fleet run: Fleet.__init__ then env.run(until)         *)
(*   SpecHazard  a fleet run of one rover on a planet that is all Hazard   *)
(*               except the rover's start cell                             *)
(*   SpecSim     the fleet loop of sim: successive fleets on one planet    *)
(***************************************************************************)
EXTENDS Integers, Sequences, FiniteSets, TLC

VARIABLES width, height, grid, rovers, num_rovers, distance, sim_times,
          lost_rovers, water_total, mineral_total, now, queue, pc,
          grid0, attempts, last, num_fleets, exploration_num, df_results

vars == <<width, height, grid, rovers, num_rovers, distance, sim_times,
          lost_rovers, water_total, mineral_total, now, queue, pc,
          grid0, attempts, last, num_fleets, exploration_num, df_results>>

\* The variables of the fleet loop of sim.
simVars == <<num_fleets, exploration_num, df_results>>

\* ---------------------------------------------------------------- bounds
PlanetCells == 2
MaxCoord == 2
RoverCells == 3
FleetCells == 2
HazardSide == 2
MaxRovers == 2
MaxTicks == 2
SimCells == 2
SimRovers == 1
SimTicks == 2
MaxFleets == 2

\* ------------------------------------------------------------ enumerations
CellType == {"EMPTY", "WATER", "MINERAL", "OBSTACLE", "ACCIDENT"}

RoverState == {"EXPLORING", "GATHERING", "LOST"}

Directions == {"N", "S", "E", "W"}

movements == [N |-> <<0, 1>>, S |-> <<0, -1>>, E |-> <<1, 0>>, W |-> <<-1, 0>>]

\* ------------------------------------------------------------------ Planet
\* Python's % on integers with a positive divisor: the non-negative remainder.
ClampedMod(a, b) == IF a < 0 THEN 0 ELSE a % b

PyMod(a, b) == a % b

Cells(w, h) == (0 .. w - 1) \X (0 .. h - 1)

Grids(w, h) == [Cells(w, h) -> CellType]

WrapPos(pos, w, h) == <<PyMod(pos[1], w), PyMod(pos[2], h)>>

get_cell(g, w, h, pos) == g[WrapPos(pos, w, h)]

empty_cell_MarksObstacle(g, w, h, pos) ==
    IF g[WrapPos(pos, w, h)] \in {"WATER", "MINERAL"}
    THEN [g EXCEPT ![WrapPos(pos, w, h)] = "OBSTACLE"]
    ELSE g

empty_cell_KeepsCell(g, w, h, pos) == g

empty_cell_grid(g, w, h, pos) ==
    IF g[WrapPos(pos, w, h)] \in {"WATER", "MINERAL"}
    THEN [g EXCEPT ![WrapPos(pos, w, h)] = "EMPTY"]
    ELSE g

empty_cell_ret(g, w, h, pos) ==
    IF g[WrapPos(pos, w, h)] \in {"WATER", "MINERAL"} THEN "True" ELSE "False"

\* ------------------------------------------------------------------- Rover
RoverNew(x, y) ==
    [location |-> <<x, y>>,
     state |-> "EXPLORING",
     load |-> [WATER |-> 0, MINERAL |-> 0],
     findings_locations |-> [WATER |-> <<>>, MINERAL |-> <<>>]]

update_state_WrongEnum(r, g, w, h) ==
    LET cell == get_cell(g, w, h, r.location)
    IN  [r EXCEPT !.state =
            IF cell = "WATER" \/ cell = "MINERAL" THEN "GATHERING"
            ELSE IF cell = "OBSTACLE" THEN "LOST"
            ELSE "EXPLORING"]

update_state(r, g, w, h) ==
    LET cell == get_cell(g, w, h, r.location)
    IN  [r EXCEPT !.state =
            IF cell = "WATER" \/ cell = "MINERAL" THEN "GATHERING"
            ELSE IF cell = "ACCIDENT" THEN "LOST"
            ELSE "EXPLORING"]

new_location_Unwrapped(r, direction, w, h) ==
    <<r.location[1] + movements[direction][1],
      r.location[2] + movements[direction][2]>>

new_location_NorthSouthSwapped(r, direction, w, h) ==
    <<PyMod(r.location[1] + movements[direction][1], w),
      PyMod(r.location[2] - movements[direction][2], h)>>

new_location(r, direction, w, h) ==
    <<PyMod(r.location[1] + movements[direction][1], w),
      PyMod(r.location[2] + movements[direction][2], h)>>

move_ret(r, direction, g, w, h) ==
    IF get_cell(g, w, h, new_location(r, direction, w, h)) = "OBSTACLE"
    THEN "False" ELSE "True"

move_StateBeforeStep(r, direction, g, w, h) ==
    IF get_cell(g, w, h, new_location(r, direction, w, h)) = "OBSTACLE"
    THEN r
    ELSE [update_state(r, g, w, h) EXCEPT
             !.location = new_location(r, direction, w, h)]

move_ThroughObstacle(r, direction, g, w, h) ==
    update_state([r EXCEPT !.location = new_location(r, direction, w, h)],
                 g, w, h)

move(r, direction, g, w, h) ==
    IF get_cell(g, w, h, new_location(r, direction, w, h)) = "OBSTACLE"
    THEN r
    ELSE update_state([r EXCEPT !.location = new_location(r, direction, w, h)],
                      g, w, h)

gather_rover_MineralAsWater(r, g, w, h) ==
    LET cell == get_cell(g, w, h, r.location)
    IN  IF cell = "WATER" \/ cell = "MINERAL"
        THEN [r EXCEPT !.load.WATER = @ + 1,
                       !.findings_locations.WATER = Append(@, r.location)]
        ELSE r

gather_rover(r, g, w, h) ==
    LET cell == get_cell(g, w, h, r.location)
    IN  IF cell = "WATER"
        THEN [r EXCEPT !.load.WATER = @ + 1,
                       !.findings_locations.WATER = Append(@, r.location)]
        ELSE IF cell = "MINERAL"
        THEN [r EXCEPT !.load.MINERAL = @ + 1,
                       !.findings_locations.MINERAL = Append(@, r.location)]
        ELSE r

gather_grid(r, g, w, h) ==
    LET cell == get_cell(g, w, h, r.location)
    IN  IF cell = "WATER" \/ cell = "MINERAL"
        THEN empty_cell_grid(g, w, h, r.location)
        ELSE g

\* --------------------------------------------------------- record of calls
NoCall == [op |-> "none", who |-> 0, pos |-> <<0, 0>>, dir |-> "-",
           ret |-> "None", state_before |-> "-", cell_before |-> "-",
           cell_after |-> "-"]

\* The grid sizes with at most n cells.
Dims(n) == {d \in (1 .. n) \X (1 .. n) : d[1] * d[2] <= n}

\* ------------------------------------------------- SpecPlanet: Planet calls
InitPlanet ==
    /\ \E d \in Dims(PlanetCells) :
          /\ width = d[1]
          /\ height = d[2]
          /\ grid \in Grids(d[1], d[2])
    /\ grid0 = grid
    /\ rovers = <<>>
    /\ num_rovers = 0
    /\ distance = 0
    /\ sim_times = 0
    /\ lost_rovers = 0
    /\ water_total = 0
    /\ mineral_total = 0
    /\ now = 0
    /\ queue = <<>>
    /\ pc = "planet"
    /\ attempts = <<>>
    /\ last = NoCall
    /\ num_fleets = 1
    /\ exploration_num = 1
    /\ df_results = <<>>

GetCellCall(x, y) ==
    /\ pc = "planet"
    /\ last' = [NoCall EXCEPT !.op = "get_cell", !.pos = <<x, y>>,
                              !.ret = get_cell(grid, width, height, <<x, y>>)]
    /\ UNCHANGED <<width, height, grid, rovers, num_rovers, distance,
                   sim_times, lost_rovers, water_total, mineral_total, now,
                   queue, pc, grid0, attempts, simVars>>

EmptyCellCall(x, y) ==
    /\ pc = "planet"
    /\ grid' = empty_cell_grid(grid, width, height, <<x, y>>)
    /\ last' = [NoCall EXCEPT !.op = "empty_cell", !.pos = <<x, y>>,
                              !.ret = empty_cell_ret(grid, width, height, <<x, y>>)]
    /\ UNCHANGED <<width, height, rovers, num_rovers, distance,
                   sim_times, lost_rovers, water_total, mineral_total, now,
                   queue, pc, grid0, attempts, simVars>>

NextPlanet ==
    \/ \E x \in (0 - MaxCoord) .. MaxCoord, y \in (0 - MaxCoord) .. MaxCoord :
          GetCellCall(x, y)
    \/ \E x \in (0 - MaxCoord) .. MaxCoord, y \in (0 - MaxCoord) .. MaxCoord :
          EmptyCellCall(x, y)

SpecPlanet == InitPlanet /\ [][NextPlanet]_vars

\* ------------------------------------------------------ claims on the Planet
\* The non-negative remainder of a by b > 0, by repeated addition or
\* subtraction of b until the value lies in 0 .. b-1.
RECURSIVE NonNegRem(_, _)
NonNegRem(a, b) ==
    IF a < 0 THEN NonNegRem(a + b, b)
    ELSE IF a >= b THEN NonNegRem(a - b, b)
    ELSE a

WrappedCell(pos) == <<NonNegRem(pos[1], width), NonNegRem(pos[2], height)>>

\* C8: harvest (empty_cell) on a Water or Mineral cell sets it to Empty and
\* reports a clearing; a second harvest of the same cell reports nothing
\* cleared and the cell stays Empty; harvest on an Empty, Obstacle or Hazard
\* cell reports nothing cleared and changes no cell of the grid.
C8_HarvestIdempotence ==
    [][last'.op = "empty_cell" =>
        LET c == WrappedCell(last'.pos)
        IN  /\ grid[c] \in {"WATER", "MINERAL"} =>
                  /\ last'.ret = "True"
                  /\ grid'[c] = "EMPTY"
            /\ grid[c] \in {"EMPTY", "OBSTACLE", "ACCIDENT"} =>
                  /\ last'.ret = "False"
                  /\ grid' = grid
            /\ (last.op = "empty_cell" /\ WrappedCell(last.pos) = c) =>
                  /\ last'.ret = "False"
                  /\ grid' = grid
                  /\ grid[c] \in {"WATER", "MINERAL"} => FALSE]_vars

\* A harvest that reported nothing on a cell an earlier harvest had cleared.
C8_Witness ==
    /\ pc = "planet"
    /\ last.op = "empty_cell"
    /\ last.ret = "False"
    /\ grid0[WrappedCell(last.pos)] \in {"WATER", "MINERAL"}
    /\ grid[WrappedCell(last.pos)] = "EMPTY"

\* C9: for all integers x, y (negative, in range, or >= width / height)
\* get_cell(x, y) returns the cell stored at (x mod W, y mod H) with the
\* non-negative remainder and never fails; empty_cell addresses the same
\* wrapped cell (no other cell changes, a resource there is cleared).
C9_ToroidalWrap ==
    [][/\ last'.op = "get_cell" =>
            /\ last'.ret = grid[WrappedCell(last'.pos)]
            /\ last'.ret \in CellType
            /\ grid' = grid
       /\ last'.op = "empty_cell" =>
            /\ \A c \in Cells(width, height) :
                  c # WrappedCell(last'.pos) => grid'[c] = grid[c]
            /\ grid[WrappedCell(last'.pos)] \in {"WATER", "MINERAL"} =>
                  grid'[WrappedCell(last'.pos)] = "EMPTY"]_vars

\* get_cell called with a negative x and a y beyond the height, on a grid
\* where the wrapped cell differs from some other cell.
C9_Witness ==
    /\ pc = "planet"
    /\ last.op = "get_cell"
    /\ last.pos[1] < 0
    /\ last.pos[2] >= height
    /\ width > 1
    /\ \E c \in Cells(width, height) : grid[c] # last.ret

\* --------------------------------------------------- SpecRover: Rover calls
InitRover ==
    /\ \E d \in Dims(RoverCells) :
          /\ width = d[1]
          /\ height = d[2]
          /\ grid \in Grids(d[1], d[2])
          /\ \E x \in 0 .. d[1], y \in 0 .. d[2] - 1 : rovers = <<RoverNew(x, y)>>
    /\ grid0 = grid
    /\ num_rovers = 1
    /\ distance = 0
    /\ sim_times = 0
    /\ lost_rovers = 0
    /\ water_total = 0
    /\ mineral_total = 0
    /\ now = 0
    /\ queue = <<>>
    /\ pc = "rover"
    /\ attempts = <<0>>
    /\ last = NoCall
    /\ num_fleets = 1
    /\ exploration_num = 1
    /\ df_results = <<>>

MoveCall(direction) ==
    /\ pc = "rover"
    /\ rovers' = [rovers EXCEPT ![1] = move(@, direction, grid, width, height)]
    /\ last' = [NoCall EXCEPT
                  !.op = "move", !.who = 1, !.dir = direction,
                  !.pos = rovers[1].location,
                  !.state_before = rovers[1].state,
                  !.ret = move_ret(rovers[1], direction, grid, width, height)]
    /\ UNCHANGED <<width, height, grid, num_rovers, distance, sim_times,
                   lost_rovers, water_total, mineral_total, now, queue, pc,
                   grid0, attempts, simVars>>

GatherCall ==
    /\ pc = "rover"
    /\ rovers' = [rovers EXCEPT ![1] = gather_rover(@, grid, width, height)]
    /\ grid' = gather_grid(rovers[1], grid, width, height)
    /\ last' = [NoCall EXCEPT
                  !.op = "gather", !.who = 1,
                  !.pos = rovers[1].location,
                  !.state_before = rovers[1].state,
                  !.cell_before = get_cell(grid, width, height, rovers[1].location)]
    /\ UNCHANGED <<width, height, num_rovers, distance, sim_times,
                   lost_rovers, water_total, mineral_total, now, queue, pc,
                   grid0, attempts, simVars>>

NextRover ==
    \/ \E direction \in Directions : MoveCall(direction)
    \/ GatherCall

SpecRover == InitRover /\ [][NextRover]_vars

\* ------------------------------------------------------- claims on the Rover
\* The cell a move in the given direction aims at: the position plus the unit
\* vector of the direction, wrapped onto the torus.
Candidate(loc, direction) ==
    WrappedCell(
        IF direction = "N" THEN <<loc[1], loc[2] + 1>>
        ELSE IF direction = "S" THEN <<loc[1], loc[2] - 1>>
        ELSE IF direction = "E" THEN <<loc[1] + 1, loc[2]>>
        ELSE <<loc[1] - 1, loc[2]>>)

\* C1: once a rover is LOST, any further move (in any of the four directions)
\* or gather leaves its position, its load counters and its state unchanged.
C1_DisablementTerminal ==
    [][(rovers[1].state = "LOST" /\ last'.op \in {"move", "gather"}) =>
          /\ rovers'[1].location = rovers[1].location
          /\ rovers'[1].load = rovers[1].load
          /\ rovers'[1].state = rovers[1].state]_vars

\* C6: if the wrapped candidate cell of a move is OBSTACLE, move returns False
\* and the rover's position and state are what they were before the call, and
\* the grid is unchanged; for every state, position and direction.
C6_ObstacleImpassable ==
    [][(last'.op = "move" /\
        grid[Candidate(rovers[1].location, last'.dir)] = "OBSTACLE") =>
          /\ last'.ret = "False"
          /\ rovers'[1].location = rovers[1].location
          /\ rovers'[1].state = rovers[1].state
          /\ grid' = grid]_vars

\* A rover that is GATHERING on a resource cell was just blocked by an
\* obstacle.
C6_Witness ==
    /\ pc = "rover"
    /\ last.op = "move"
    /\ last.ret = "False"
    /\ last.state_before = "GATHERING"
    /\ rovers[1].state = "GATHERING"
    /\ grid[Candidate(rovers[1].location, last.dir)] = "OBSTACLE"

\* ------------------------------------------------------ Spec: one fleet run
\* Rover i of the fleet (1-based here, index i-1 in Fleet.__init__).
StartPos(i, n, w, h, dist) == <<(((i - 1) * w) \div n) + dist, ((i - 1) * h) \div n>>

\* The fleet counts a resource when a GATHERING rover's cell changed.
CountsResource_Inverted(state, cell_before, cell_after, kind) ==
    /\ state = "GATHERING"
    /\ cell_before = cell_after
    /\ cell_before = kind

CountsResource(state, cell_before, cell_after, kind) ==
    /\ state = "GATHERING"
    /\ cell_before # cell_after
    /\ cell_before = kind

CountsLost(r) == r.state = "LOST"

\* The loop condition of rover_behavior.
Alive_Always(r) == TRUE

Alive(r) == r.state # "LOST"

\* Fleet.__init__ registers one process per rover, in index order; simpy
\* starts them at time 0 in the order of registration.
InitialQueue_Reversed(n) == [i \in 1 .. n |-> [time |-> 0, rover |-> n + 1 - i]]

InitialQueue(n) == [i \in 1 .. n |-> [time |-> 0, rover |-> i]]

\* env.run(until): an event is processed only if its time is before until.
RunsBefore_Inclusive(time, until) == time <= until

RunsBefore(time, until) == time < until

Init ==
    /\ \E d \in Dims(FleetCells) :
          /\ width = d[1]
          /\ height = d[2]
          /\ grid \in Grids(d[1], d[2])
    /\ grid0 = grid
    /\ num_rovers \in 1 .. MaxRovers
    /\ distance = width \div num_rovers
    /\ sim_times \in {1, MaxTicks}
    /\ rovers = [i \in 1 .. num_rovers |->
                    RoverNew(StartPos(i, num_rovers, width, height, distance)[1],
                             StartPos(i, num_rovers, width, height, distance)[2])]
    /\ queue = InitialQueue(num_rovers)
    /\ lost_rovers = 0
    /\ water_total = 0
    /\ mineral_total = 0
    /\ now = 0
    /\ pc = "run"
    /\ attempts = [i \in 1 .. num_rovers |-> 0]
    /\ last = NoCall
    /\ num_fleets = 1
    /\ exploration_num = 1
    /\ df_results = <<>>

\* One pass of the loop of rover_behavior, from its resumption to its yield.
RoverBehavior(direction) ==
    /\ pc = "run"
    /\ queue # <<>>
    /\ RunsBefore(Head(queue).time, sim_times)
    /\ Alive(rovers[Head(queue).rover])
    /\ LET i == Head(queue).rover
           r == rovers[i]
           gathering == r.state = "GATHERING"
           cell_before == get_cell(grid, width, height, r.location)
           r1 == IF gathering THEN gather_rover(r, grid, width, height) ELSE r
           g1 == IF gathering THEN gather_grid(r, grid, width, height) ELSE grid
           cell_after == get_cell(g1, width, height, r.location)
           r2 == move(r1, direction, g1, width, height)
       IN  /\ grid' = g1
           /\ rovers' = [rovers EXCEPT ![i] = r2]
           /\ water_total' =
                 IF CountsResource(r.state, cell_before, cell_after, "WATER")
                 THEN water_total + 1 ELSE water_total
           /\ mineral_total' =
                 IF CountsResource(r.state, cell_before, cell_after, "MINERAL")
                 THEN mineral_total + 1 ELSE mineral_total
           /\ lost_rovers' = IF CountsLost(r2) THEN lost_rovers + 1 ELSE lost_rovers
           /\ now' = Head(queue).time
           /\ queue' = Append(Tail(queue), [time |-> Head(queue).time + 1, rover |-> i])
           /\ attempts' = [attempts EXCEPT ![i] = @ + 1]
           /\ last' = [NoCall EXCEPT
                         !.op = "rover_behavior", !.who = i,
                         !.state_before = r.state,
                         !.cell_before = cell_before,
                         !.cell_after = cell_after]
    /\ UNCHANGED <<width, height, num_rovers, distance, sim_times, pc, grid0,
                   simVars>>

\* A LOST rover's process is resumed, leaves the loop and ends.
RoverExit ==
    /\ pc = "run"
    /\ queue # <<>>
    /\ RunsBefore(Head(queue).time, sim_times)
    /\ ~Alive(rovers[Head(queue).rover])
    /\ now' = Head(queue).time
    /\ queue' = Tail(queue)
    /\ last' = [NoCall EXCEPT !.op = "exit", !.who = Head(queue).rover]
    /\ UNCHANGED <<width, height, grid, rovers, num_rovers, distance, sim_times,
                   lost_rovers, water_total, mineral_total, pc, grid0, attempts,
                   simVars>>

\* env.run(until=sim_times) returns: nothing is left to process before until.
StopSimulation ==
    /\ pc = "run"
    /\ IF queue = <<>> THEN TRUE ELSE ~RunsBefore(Head(queue).time, sim_times)
    /\ now' = sim_times
    /\ pc' = "done"
    /\ last' = [NoCall EXCEPT !.op = "stop"]
    /\ UNCHANGED <<width, height, grid, rovers, num_rovers, distance, sim_times,
                   lost_rovers, water_total, mineral_total, queue, grid0, attempts,
                   simVars>>

Next ==
    \/ \E direction \in Directions : RoverBehavior(direction)
    \/ RoverExit
    \/ StopSimulation

Spec == Init /\ [][Next]_vars

\* The scenarios of one rover: a planet whose cells are all ACCIDENT, except
\* the cell the rover starts on, which holds any content (the 1x1 planet of
\* a single WATER cell is one of them); the rover is placed with offset 0 or
\* with the offset sim passes.
InitHazard ==
    /\ width \in 1 .. HazardSide
    /\ height \in 1 .. HazardSide
    /\ num_rovers = 1
    /\ distance \in {0, width \div num_rovers}
    /\ sim_times \in 1 .. MaxTicks
    /\ \E start \in CellType :
          grid = [c \in Cells(width, height) |->
                    IF c = WrapPos(StartPos(1, 1, width, height, distance),
                                   width, height)
                    THEN start ELSE "ACCIDENT"]
    /\ grid0 = grid
    /\ rovers = [i \in 1 .. num_rovers |->
                    RoverNew(StartPos(i, num_rovers, width, height, distance)[1],
                             StartPos(i, num_rovers, width, height, distance)[2])]
    /\ queue = InitialQueue(num_rovers)
    /\ lost_rovers = 0
    /\ water_total = 0
    /\ mineral_total = 0
    /\ now = 0
    /\ pc = "run"
    /\ attempts = [i \in 1 .. num_rovers |-> 0]
    /\ last = NoCall
    /\ num_fleets = 1
    /\ exploration_num = 1
    /\ df_results = <<>>

SpecHazard == InitHazard /\ [][Next]_vars

\* ------------------------------------------------------- claims on the Fleet
\* The state the transition rule gives for a cell content.
RuleState(cell) ==
    IF cell \in {"WATER", "MINERAL"} THEN "GATHERING"
    ELSE IF cell = "ACCIDENT" THEN "LOST"
    ELSE "EXPLORING"

Constructed == pc = "run" /\ last.op = "none"

\* No tick is partly processed: all pending resumptions are for the same time.
TickBoundary ==
    \A j \in DOMAIN queue, k \in DOMAIN queue : queue[j].time = queue[k].time

\* Exactly n ticks have been processed: every rover waits for time n.
AfterTicks(n) ==
    /\ pc = "run"
    /\ Len(queue) = num_rovers
    /\ \A j \in DOMAIN queue : queue[j].time = n

StartCell(i) == WrappedCell(StartPos(i, num_rovers, width, height, distance))

\* C2: when a fleet is constructed, each rover's initial state is the
\* transition rule applied to its (wrapped) start cell: GATHERING on Water or
\* Mineral, LOST on Hazard, EXPLORING otherwise.
C2_InitialStateEvaluated ==
    Constructed =>
        \A i \in 1 .. num_rovers : rovers[i].state = RuleState(grid[StartCell(i)])

\* C3: on a 1x1 grid whose only cell is Water, with a single rover placed at
\* (0,0) (offset 0), the rover starts GATHERING and after exactly one tick,
\* for every drawn direction, water_total = 1, the cell is Empty and the
\* rover is EXPLORING.  (last.state_before is the state the rover had when
\* its first tick began, that is, the state it was constructed with.)
C3_OneByOneWater ==
    (/\ width = 1
     /\ height = 1
     /\ grid0[<<0, 0>>] = "WATER"
     /\ num_rovers = 1
     /\ distance = 0
     /\ AfterTicks(1)) =>
        /\ last.state_before = "GATHERING"
        /\ water_total = 1
        /\ grid[<<0, 0>>] = "EMPTY"
        /\ rovers[1].state = "EXPLORING"

Cleared(kind) ==
    Cardinality({c \in Cells(width, height) : grid0[c] = kind /\ grid[c] = "EMPTY"})

RECURSIVE SumLoad(_, _)
SumLoad(kind, n) ==
    IF n = 0 THEN 0 ELSE rovers[n].load[kind] + SumLoad(kind, n - 1)

\* C4: at every tick boundary of a fleet run water_total equals the number of
\* Water cells the fleet has turned to Empty and the sum of the rovers' Water
\* loads (and likewise mineral_total); rovers GATHERING on the same cell make
\* the counter rise by 1 for that cell, a gather on a cleared cell by 0.
C4_HarvestCountedOnce ==
    (pc \in {"run", "done"} /\ TickBoundary) =>
        /\ water_total = Cleared("WATER")
        /\ water_total = SumLoad("WATER", num_rovers)
        /\ mineral_total = Cleared("MINERAL")
        /\ mineral_total = SumLoad("MINERAL", num_rovers)

\* Two rovers were GATHERING on the same Water cell; the first harvested it,
\* the second has just gathered on the cleared cell, and the counter is 1.
C4_Witness ==
    /\ pc = "run"
    /\ TickBoundary
    /\ num_rovers = 2
    /\ last.op = "rover_behavior"
    /\ last.who = 2
    /\ last.state_before = "GATHERING"
    /\ last.cell_before = "EMPTY"
    /\ Cleared("WATER") = 1
    /\ Cleared("MINERAL") = 0
    /\ rovers[1].load.WATER = 1
    /\ rovers[2].load.WATER = 0
    /\ water_total = 1

NumLost == Cardinality({i \in 1 .. num_rovers : rovers[i].state = "LOST"})

\* C5: at every tick boundary lost_rovers equals the number of rovers of the
\* fleet whose state is LOST; it never exceeds the number of rovers.
C5_LostCountedOnce ==
    (pc \in {"run", "done"} /\ TickBoundary) =>
        /\ lost_rovers = NumLost
        /\ lost_rovers <= num_rovers

\* One rover was lost in the first tick and its process has ended, the other
\* rover went on; the counter is 1 a tick later.
C5_Witness ==
    /\ pc = "run"
    /\ TickBoundary
    /\ num_rovers = 2
    /\ Len(queue) = 1
    /\ queue[1].time = 2
    /\ lost_rovers = 1
    /\ NumLost = 1

AllHazardExceptStart ==
    \A c \in Cells(width, height) : c # StartCell(1) => grid0[c] = "ACCIDENT"

\* C7 as stated: with a single rover on a grid where every cell except the
\* start cell is Hazard, after exactly one tick lost_rovers = 1, for every
\* direction drawn.
C7_AllHazard_Original ==
    (num_rovers = 1 /\ AllHazardExceptStart /\ AfterTicks(1)) =>
        lost_rovers = 1

\* C7 amended: the same on grids with width >= 2 and height >= 2, where every
\* move leaves the start cell.
C7_AllHazard ==
    (num_rovers = 1 /\ AllHazardExceptStart /\ AfterTicks(1)
        /\ width >= 2 /\ height >= 2) =>
        lost_rovers = 1

C7_Witness ==
    /\ num_rovers = 1
    /\ AllHazardExceptStart
    /\ AfterTicks(1)
    /\ width >= 2
    /\ height >= 2
    /\ grid0[StartCell(1)] # "ACCIDENT"
    /\ last.op = "rover_behavior"
    /\ rovers[1].state = "LOST"
    /\ lost_rovers = 1

\* C10: a run with budget sim_times executes exactly sim_times ticks however
\* many rovers are lost: it stops only when nothing is pending before
\* sim_times, with now = sim_times; every rover that is not LOST makes exactly
\* one move attempt per tick; a LOST rover is never processed again, so its
\* position, load and state and the fleet's counters and grid stay as they
\* were when its process is resumed.
C10_Inv ==
    /\ \A j \in DOMAIN queue :
          (pc \in {"run", "done"} /\ rovers[queue[j].rover].state # "LOST") =>
              attempts[queue[j].rover] = queue[j].time
    /\ pc = "done" =>
          /\ now = sim_times
          /\ \A i \in 1 .. num_rovers :
                /\ attempts[i] <= sim_times
                /\ rovers[i].state # "LOST" =>
                      /\ attempts[i] = sim_times
                      /\ \E j \in DOMAIN queue :
                            queue[j] = [time |-> sim_times, rover |-> i]

C10_Step ==
    /\ (pc = "run" /\ pc' = "done") =>
          \A j \in DOMAIN queue : queue[j].time >= sim_times
    /\ last'.op = "rover_behavior" =>
          /\ rovers[last'.who].state # "LOST"
          /\ attempts'[last'.who] = attempts[last'.who] + 1
          /\ attempts'[last'.who] = now' + 1
          /\ now' < sim_times
    /\ \A i \in 1 .. num_rovers :
          (pc = "run" /\ rovers[i].state = "LOST") =>
              /\ rovers'[i] = rovers[i]
              /\ attempts'[i] = attempts[i]
              /\ (last'.who = i) =>
                    /\ grid' = grid
                    /\ lost_rovers' = lost_rovers
                    /\ water_total' = water_total
                    /\ mineral_total' = mineral_total

C10_RunTermination == [](C10_Inv) /\ [][C10_Step]_vars

\* The run is over after the full budget: one rover was lost in the first
\* tick, the other made one move attempt in every tick.
C10_Witness ==
    /\ pc = "done"
    /\ num_rovers = 2
    /\ sim_times = MaxTicks
    /\ now = sim_times
    /\ rovers[1].state = "LOST"
    /\ attempts[1] = 1
    /\ rovers[2].state # "LOST"
    /\ attempts[2] = sim_times

\* ------------------------------------- SpecSim: the fleets of one planet
\* The planet a fleet explores: the one created before the loop over the
\* fleets, as the fleets before left it (g), not a new one (g0).
PlanetForFleet_Regenerated(g, g0) == g0

PlanetForFleet(g, g0) == g

\* The row sim appends to df_results for a completed exploration.
ResultRow(water, mineral, lost) ==
    [Water_gathered |-> water, Mineral_gathered |-> mineral,
     Total_gathered |-> water + mineral, Lost_rovers |-> lost]

InitSim ==
    /\ \E d \in Dims(SimCells) :
          /\ width = d[1]
          /\ height = d[2]
          /\ grid \in Grids(d[1], d[2])
    /\ grid0 = grid
    /\ num_rovers \in 1 .. SimRovers
    /\ distance = width \div num_rovers
    /\ sim_times = SimTicks
    /\ num_fleets = MaxFleets
    /\ exploration_num = 1
    /\ df_results = <<>>
    /\ rovers = [i \in 1 .. num_rovers |->
                    RoverNew(StartPos(i, num_rovers, width, height, distance)[1],
                             StartPos(i, num_rovers, width, height, distance)[2])]
    /\ queue = InitialQueue(num_rovers)
    /\ lost_rovers = 0
    /\ water_total = 0
    /\ mineral_total = 0
    /\ now = 0
    /\ pc = "run"
    /\ attempts = [i \in 1 .. num_rovers |-> 0]
    /\ last = NoCall

\* The end of one pass of the loop over the fleets: the results of the
\* exploration are saved; the next pass makes a new environment and a new
\* fleet on the same planet, and after the last pass sim returns.
NextExploration ==
    /\ pc = "done"
    /\ df_results' = Append(df_results,
                            ResultRow(water_total, mineral_total, lost_rovers))
    /\ IF exploration_num < num_fleets
       THEN /\ exploration_num' = exploration_num + 1
            /\ grid' = PlanetForFleet(grid, grid0)
            /\ rovers' = [i \in 1 .. num_rovers |->
                    RoverNew(StartPos(i, num_rovers, width, height, distance)[1],
                             StartPos(i, num_rovers, width, height, distance)[2])]
            /\ queue' = InitialQueue(num_rovers)
            /\ lost_rovers' = 0
            /\ water_total' = 0
            /\ mineral_total' = 0
            /\ now' = 0
            /\ pc' = "run"
            /\ attempts' = [i \in 1 .. num_rovers |-> 0]
            /\ last' = NoCall
       ELSE /\ pc' = "end"
            /\ last' = [NoCall EXCEPT !.op = "return"]
            /\ UNCHANGED <<exploration_num, grid, rovers, queue, lost_rovers,
                           water_total, mineral_total, now, attempts>>
    /\ UNCHANGED <<width, height, num_rovers, distance, sim_times, grid0,
                   num_fleets>>

NextSim ==
    \/ \E direction \in Directions : RoverBehavior(direction)
    \/ RoverExit
    \/ StopSimulation
    \/ NextExploration

SpecSim == InitSim /\ [][NextSim]_vars

\* ---------------------------------------------- claims on the fleet loop
CountCells(g, kind) == Cardinality({c \in Cells(width, height) : g[c] = kind})

RECURSIVE SumRows(_, _)
SumRows(field, n) ==
    IF n = 0 THEN 0 ELSE df_results[n][field] + SumRows(field, n - 1)

\* What the fleets have gathered so far: the saved rows and, until it is
\* saved, the running fleet's counter.
GatheredSoFar(field, running) ==
    SumRows(field, Len(df_results))
        + (IF Len(df_results) < exploration_num THEN running ELSE 0)

\* C11: on one planet, cells an earlier fleet cleared are still Empty when the
\* next fleet starts (an Empty cell stays Empty over every step, the start of
\* a fleet included); the number of Water (Mineral) cells never increases;
\* the Water (Mineral) gathered by all fleets plus the Water (Mineral) cells
\* left equals the number the planet was generated with.
C11_Inv ==
    pc \in {"run", "done", "end"} =>
        /\ GatheredSoFar("Water_gathered", water_total) + CountCells(grid, "WATER")
              = CountCells(grid0, "WATER")
        /\ GatheredSoFar("Mineral_gathered", mineral_total) + CountCells(grid, "MINERAL")
              = CountCells(grid0, "MINERAL")

C11_Step ==
    /\ \A c \in Cells(width, height) : grid[c] = "EMPTY" => grid'[c] = "EMPTY"
    /\ CountCells(grid', "WATER") <= CountCells(grid, "WATER")
    /\ CountCells(grid', "MINERAL") <= CountCells(grid, "MINERAL")

C11_CumulativeDepletion == [](C11_Inv) /\ [][C11_Step]_vars

\* The second fleet has harvested a Water cell on the planet from which the
\* first fleet had already harvested one.
C11_Witness ==
    /\ pc = "run"
    /\ exploration_num = 2
    /\ Len(df_results) = 1
    /\ df_results[1].Water_gathered = 1
    /\ water_total = 1
    /\ CountCells(grid0, "WATER") = 2
    /\ CountCells(grid, "WATER") = 0

\* ------------------------------------------- SpecConfig: Planet construction
\* Probabilities are the fractions k / ProbDen, k in 0 .. ProbDen.
ProbDen == 3

ConfigCells == 2

Probabilities == (0 .. ProbDen) \X (0 .. ProbDen) \X (0 .. ProbDen) \X (0 .. ProbDen)

\* water_prob + mineral_prob + obstacle_prob + accident_prob, in 1/ProbDen.
total_prob(p) == p[1] + p[2] + p[3] + p[4]

ExceedsOne_Inclusive(total) == total >= ProbDen

\* total_prob > 1.0
ExceedsOne(total) == total > ProbDen

\* The list p handed to the random choice, in the order of list(CellType).
ChoiceWeights(p) ==
    [EMPTY |-> ProbDen - total_prob(p), WATER |-> p[1], MINERAL |-> p[2],
     OBSTACLE |-> p[3], ACCIDENT |-> p[4]]

\* The cell types the random choice can draw: those of positive weight.
Drawable(p) == {t \in CellType : ChoiceWeights(p)[t] > 0}

\* Before Planet(...) is called there is no grid.
InitConfig ==
    /\ \E d \in Dims(ConfigCells) :
          /\ width = d[1]
          /\ height = d[2]
    /\ grid = <<>>
    /\ grid0 = <<>>
    /\ rovers = <<>>
    /\ num_rovers = 0
    /\ distance = 0
    /\ sim_times = 0
    /\ lost_rovers = 0
    /\ water_total = 0
    /\ mineral_total = 0
    /\ now = 0
    /\ queue = <<>>
    /\ pc = "new"
    /\ attempts = <<>>
    /\ last = NoCall
    /\ num_fleets = 1
    /\ exploration_num = 1
    /\ df_results = <<>>

\* Planet.__init__ with the probabilities p: the validation raises, or every
\* cell is drawn from the cell types of positive weight.
PlanetInit(p) ==
    /\ pc = "new"
    /\ IF ExceedsOne(total_prob(p))
       THEN /\ pc' = "ValueError"
            /\ grid' = grid
            /\ last' = [op |-> "Planet", probs |-> p, ret |-> "ValueError"]
       ELSE /\ pc' = "planet"
            /\ grid' \in [Cells(width, height) -> Drawable(p)]
            /\ last' = [op |-> "Planet", probs |-> p, ret |-> "None",
                        weights |-> ChoiceWeights(p)]
    /\ grid0' = grid'
    /\ UNCHANGED <<width, height, rovers, num_rovers, distance, sim_times,
                   lost_rovers, water_total, mineral_total, now, queue,
                   attempts, simVars>>

NextConfig == \E p \in Probabilities : PlanetInit(p)

SpecConfig == InitConfig /\ [][NextConfig]_vars

\* C12: construction of the planet fails with the ValueError exactly when
\* water + mineral + obstacle + hazard probability exceeds 1 (ProbDen
\* parts), and then no grid exists; otherwise it succeeds, the weights are
\* the given probabilities unclamped with Empty weight 1 - sum, and every
\* cell of the full grid holds a cell type of positive weight.
C12_ConfigurationError ==
    pc # "new" =>
        LET q == last.probs
            sum == q[1] + q[2] + q[3] + q[4]
        IN  /\ last.op = "Planet"
            /\ (pc = "ValueError") <=> (sum > ProbDen)
            /\ pc = "ValueError" =>
                  /\ last.ret = "ValueError"
                  /\ grid = <<>>
            /\ pc # "ValueError" =>
                  /\ pc = "planet"
                  /\ sum <= ProbDen
                  /\ last.weights.EMPTY = ProbDen - sum
                  /\ last.weights.WATER = q[1]
                  /\ last.weights.MINERAL = q[2]
                  /\ last.weights.OBSTACLE = q[3]
                  /\ last.weights.ACCIDENT = q[4]
                  /\ grid \in Grids(width, height)
                  /\ \A c \in Cells(width, height) : last.weights[grid[c]] > 0

\* A construction that failed because the sum is one part above 1.
C12_Witness ==
    /\ pc = "ValueError"
    /\ last.op = "Planet"
    /\ last.probs[1] + last.probs[2] + last.probs[3] + last.probs[4] = ProbDen + 1
    /\ grid = <<>>

\* ------------------------------------------------ more claims on fleet runs
\* The cell a rover stands on, in the grid g.
CellOf(i, g) == get_cell(g, width, height, rovers[i].location)

\* The statement of C14 as written: every GATHERING rover of a fleet run
\* stands on a cell that now holds Water or Mineral.
C14_Gathering_Original ==
    pc \in {"run", "done"} =>
        \A i \in 1 .. num_rovers :
            rovers[i].state = "GATHERING" =>
                CellOf(i, grid) \in {"WATER", "MINERAL"}

\* C14: in every state of a fleet run, a GATHERING rover stands on a cell
\* that was generated as Water or Mineral and that now holds that same
\* resource or, once harvested, Empty.
C14_Gathering ==
    pc \in {"run", "done"} =>
        \A i \in 1 .. num_rovers :
            rovers[i].state = "GATHERING" =>
                /\ CellOf(i, grid0) \in {"WATER", "MINERAL"}
                /\ CellOf(i, grid) \in {CellOf(i, grid0), "EMPTY"}

\* A rover that harvested its Water cell, was blocked by an Obstacle and is
\* still GATHERING on the cell that is now Empty.
C14_Witness ==
    /\ pc = "run"
    /\ \E i \in 1 .. num_rovers :
          /\ rovers[i].state = "GATHERING"
          /\ rovers[i].load.WATER = 1
          /\ CellOf(i, grid0) = "WATER"
          /\ CellOf(i, grid) = "EMPTY"

\* Rovers i and j stand on the same cell of the planet.
SameCell(i, j) ==
    WrapPos(rovers[i].location, width, height) =
        WrapPos(rovers[j].location, width, height)

\* The step is one pass of rover i through rover_behavior.
Processes(i) == last'.op = "rover_behavior" /\ last'.who = i

\* C15: in each tick every rover that is not LOST is processed exactly once,
\* in increasing index order, and the time advances only when all of them
\* have been processed: when rover i is processed in tick t it is not LOST
\* and this is its pass number t+1, every lower-index rover that is not LOST
\* has made its pass of tick t, and every higher-index one has not.  So when
\* a GATHERING rover harvests a resource cell on which another GATHERING
\* rover still waits for its pass of the tick, the harvester has the lower
\* index, its load grows by one and the waiting rover's load does not.
C15_PerTickOrder ==
    [][\A i \in 1 .. num_rovers : Processes(i) =>
          /\ rovers[i].state # "LOST"
          /\ now' >= now
          /\ attempts[i] = now'
          /\ attempts'[i] = now' + 1
          /\ \A j \in 1 .. num_rovers :
                /\ (j < i /\ rovers[j].state # "LOST") => attempts[j] = now' + 1
                /\ (j > i /\ rovers[j].state # "LOST") => attempts[j] = now'
                /\ j # i => attempts'[j] = attempts[j]
          /\ (rovers[i].state = "GATHERING" /\ CellOf(i, grid) \in {"WATER", "MINERAL"}) =>
                /\ rovers'[i].load[CellOf(i, grid)] = rovers[i].load[CellOf(i, grid)] + 1
                /\ \A j \in 1 .. num_rovers :
                      (/\ j # i
                       /\ rovers[j].state = "GATHERING"
                       /\ SameCell(i, j)
                       /\ attempts[j] = now') =>
                          /\ i < j
                          /\ rovers'[j].load = rovers[j].load
      ]_vars

\* Rovers 1 and 2 were GATHERING on the same Water cell at the start of the
\* tick; rover 1 has made its pass and has the load, rover 2 still waits.
C15_Witness ==
    /\ pc = "run"
    /\ num_rovers >= 2
    /\ last.op = "rover_behavior"
    /\ last.who = 1
    /\ last.state_before = "GATHERING"
    /\ last.cell_before = "WATER"
    /\ last.cell_after = "EMPTY"
    /\ rovers[1].load.WATER = 1
    /\ rovers[2].state = "GATHERING"
    /\ rovers[2].load.WATER = 0
    /\ attempts[2] = attempts[1] - 1
    /\ Head(queue).rover = 2

\* ------------------------------------------------- more claims on the Rover
\* C16: for every rover state and direction, when the wrapped candidate cell
\* of a move is not OBSTACLE, move returns True, the position becomes the
\* current position plus the unit vector wrapped modulo (width, height), and
\* the state becomes GATHERING on Water or Mineral, LOST on a Hazard and
\* EXPLORING otherwise, whatever the state was before; no move, blocked or
\* not, changes the grid, the loads or the findings.
C16_MoveTransition ==
    [][last'.op = "move" =>
          /\ grid' = grid
          /\ rovers'[1].load = rovers[1].load
          /\ rovers'[1].findings_locations = rovers[1].findings_locations
          /\ grid[Candidate(rovers[1].location, last'.dir)] # "OBSTACLE" =>
                /\ last'.ret = "True"
                /\ rovers'[1].location = Candidate(rovers[1].location, last'.dir)
                /\ rovers'[1].state =
                      RuleState(grid[Candidate(rovers[1].location, last'.dir)])
      ]_vars

\* A GATHERING rover moved South from row 0, wrapped to the top row of a
\* planet of height 3 and is EXPLORING there.
C16_Witness ==
    /\ pc = "rover"
    /\ last.op = "move"
    /\ last.ret = "True"
    /\ last.dir = "S"
    /\ last.state_before = "GATHERING"
    /\ last.pos[2] = 0
    /\ height = 3
    /\ rovers[1].location[2] = 2
    /\ rovers[1].state = "EXPLORING"

\* C17: gather on a Water cell adds exactly 1 to the Water load, appends the
\* rover's position to the Water findings and sets that cell to Empty, and
\* it leaves the Mineral load and findings alone; symmetrically for Mineral;
\* gather on an Empty, Obstacle or Hazard cell changes nothing; in every
\* case the position, the state and every other cell stay as they were.
C17_GatherEffectAndFrame ==
    [][last'.op = "gather" =>
        LET r == rovers[1]
            c == WrappedCell(r.location)
        IN  /\ rovers'[1].location = r.location
            /\ rovers'[1].state = r.state
            /\ \A d \in Cells(width, height) : d # c => grid'[d] = grid[d]
            /\ grid[c] = "WATER" =>
                  /\ rovers'[1].load.WATER = r.load.WATER + 1
                  /\ rovers'[1].findings_locations.WATER =
                        r.findings_locations.WATER \o <<r.location>>
                  /\ rovers'[1].load.MINERAL = r.load.MINERAL
                  /\ rovers'[1].findings_locations.MINERAL =
                        r.findings_locations.MINERAL
                  /\ grid'[c] = "EMPTY"
            /\ grid[c] = "MINERAL" =>
                  /\ rovers'[1].load.MINERAL = r.load.MINERAL + 1
                  /\ rovers'[1].findings_locations.MINERAL =
                        r.findings_locations.MINERAL \o <<r.location>>
                  /\ rovers'[1].load.WATER = r.load.WATER
                  /\ rovers'[1].findings_locations.WATER =
                        r.findings_locations.WATER
                  /\ grid'[c] = "EMPTY"
            /\ grid[c] \in {"EMPTY", "OBSTACLE", "ACCIDENT"} =>
                  /\ rovers' = rovers
                  /\ grid' = grid
      ]_vars

\* A rover that already held one unit of Water gathered a Mineral cell: the
\* cell is Empty, the Mineral load is 1 and the position is in the Mineral
\* findings, while the Water load is still 1.
C17_Witness ==
    /\ pc = "rover"
    /\ last.op = "gather"
    /\ last.cell_before = "MINERAL"
    /\ rovers[1].load.MINERAL = 1
    /\ rovers[1].load.WATER = 1
    /\ rovers[1].findings_locations.MINERAL = <<last.pos>>
    /\ grid[WrappedCell(last.pos)] = "EMPTY"

\* ------------------------------------------- more claims on the fleet loop
\* C18: over the ticks of a fleet and across the successive fleets on one
\* planet, the only cell changes are Water -> Empty and Mineral -> Empty, so
\* Obstacle, Hazard and Empty cells never change; the dimensions never
\* change; and every position of the grid holds one of the five cell types.
C18_GridMutationDiscipline ==
    /\ [](/\ DOMAIN grid = Cells(width, height)
          /\ \A c \in Cells(width, height) : grid[c] \in CellType)
    /\ [][/\ width' = width
          /\ height' = height
          /\ DOMAIN grid' = DOMAIN grid
          /\ \A c \in Cells(width, height) :
                grid'[c] # grid[c] =>
                    /\ grid[c] \in {"WATER", "MINERAL"}
                    /\ grid'[c] = "EMPTY"
         ]_vars

\* The first fleet harvested the Water cell and the second fleet has just
\* harvested the Mineral cell of the same planet.
C18_Witness ==
    /\ pc = "run"
    /\ exploration_num = 2
    /\ last.op = "rover_behavior"
    /\ last.cell_before = "MINERAL"
    /\ last.cell_after = "EMPTY"
    /\ CountCells(grid0, "WATER") = 1
    /\ CountCells(grid0, "MINERAL") = 1
    /\ \A c \in Cells(width, height) : grid[c] = "EMPTY"

\* ------------------------------------------- claims on the start positions
\* C19: when a fleet of N rovers has been constructed on a W x H planet with
\* offset D, rover i (counted from 0) is at x = (i*W)//N + D, y = (i*H)//N,
\* and any two different rovers of the fleet are on different cells of the
\* planet once their positions are wrapped.
C19_DistinctStartPositions ==
    Constructed =>
        /\ \A i \in 1 .. num_rovers :
              rovers[i].location =
                  <<(((i - 1) * width) \div num_rovers) + distance,
                    ((i - 1) * height) \div num_rovers>>
        /\ \A i, j \in 1 .. num_rovers :
              i # j => WrappedCell(rovers[i].location) # WrappedCell(rovers[j].location)

\* 0 <= x < width and 0 <= y < height.
InRange(pos) ==
    /\ 0 <= pos[1] /\ pos[1] < width
    /\ 0 <= pos[2] /\ pos[2] < height

\* The positions logged by rover i.
Logged(i) ==
    {rovers[i].findings_locations.WATER[k] :
        k \in 1 .. Len(rovers[i].findings_locations.WATER)}
    \cup {rovers[i].findings_locations.MINERAL[k] :
        k \in 1 .. Len(rovers[i].findings_locations.MINERAL)}

\* The statement of C20 as written: in every state of a fleet run, from
\* construction onward, every stored position and every logged position is
\* in range.
C20_PositionsInRange_Original ==
    pc \in {"run", "done"} =>
        \A i \in 1 .. num_rovers :
            /\ InRange(rovers[i].location)
            /\ \A pos \in Logged(i) : InRange(pos)

\* C20: in every state of a fleet run, each rover's stored position is in
\* range or is still the position (i*W)//N + D, (i*H)//N the rover was
\* constructed with, and every position recorded in a findings list is in
\* range.
C20_PositionsInRange ==
    pc \in {"run", "done"} =>
        \A i \in 1 .. num_rovers :
            /\ \/ InRange(rovers[i].location)
               \/ rovers[i].location =
                     <<(((i - 1) * width) \div num_rovers) + distance,
                       ((i - 1) * height) \div num_rovers>>
            /\ \A pos \in Logged(i) : InRange(pos)

\* A rover constructed at x = width has moved onto the planet's other cell
\* and logged a find there.
C20_Witness ==
    /\ pc = "run"
    /\ \E i \in 1 .. num_rovers :
          /\ (((i - 1) * width) \div num_rovers) + distance >= width
          /\ InRange(rovers[i].location)
          /\ Logged(i) = {rovers[i].location}
          /\ attempts[i] = 2

====
